---- MODULE Spec2Model ----
(***************************************************************************)
(* Norwegian Singles training planner: the calculation core                *)
(* (lib/vdot.ts, lib/paces.ts, lib/plan-generator.ts) as a state machine.  *)
(*                                                                         *)
(* Text is a sequence of one-character strings, so that split(':') and     *)
(* Number() are modelled by what they do.  Floating-point quantities are   *)
(* fixed-point integers: a VDOT is carried in tenths (the code rounds it   *)
(* to one decimal), fractions of one in millionths.                        *)
(***************************************************************************)
EXTENDS Integers, Sequences, FiniteSets, TLC

(***************************************************************************)
(* Bounds of the model                                                     *)
(***************************************************************************)
\* trainingDays ranges over (3 - ExtraDays)..(7 + ExtraDays)
ExtraDays == 2

\* terms of the Taylor series that stands for Math.exp on [0,1)
ExpTerms == 12

(***************************************************************************)
(* Text helpers (JavaScript String / Number)                               *)
(***************************************************************************)
Digits == {"0", "1", "2", "3", "4", "5", "6", "7", "8", "9"}

DigitVal(c) ==
  CASE c = "0" -> 0 [] c = "1" -> 1 [] c = "2" -> 2 [] c = "3" -> 3
    [] c = "4" -> 4 [] c = "5" -> 5 [] c = "6" -> 6 [] c = "7" -> 7
    [] c = "8" -> 8 [] c = "9" -> 9

DigitChar(n) == <<"0", "1", "2", "3", "4", "5", "6", "7", "8", "9">>[n + 1]

IsDigits(p) == \A i \in 1..Len(p) : p[i] \in Digits

RECURSIVE DigitsValue(_)
DigitsValue(p) ==
  IF p = <<>> THEN 0
  ELSE 10 * DigitsValue(SubSeq(p, 1, Len(p) - 1)) + DigitVal(p[Len(p)])

\* Number(part): "" is 0, decimal digits with an optional leading minus are
\* their value, anything else is NaN
NumberOf(p) ==
  IF IsDigits(p) THEN [nan |-> FALSE, val |-> DigitsValue(p)]
  ELSE IF Len(p) > 1 /\ p[1] = "-" /\ IsDigits(Tail(p))
       THEN [nan |-> FALSE, val |-> 0 - DigitsValue(Tail(p))]
       ELSE [nan |-> TRUE, val |-> 0]

\* timeStr.split(':')
RECURSIVE SplitColon(_)
SplitColon(s) ==
  IF \A i \in 1..Len(s) : s[i] # ":" THEN <<s>>
  ELSE LET k == CHOOSE i \in 1..Len(s) :
                  s[i] = ":" /\ \A j \in 1..(i - 1) : s[j] # ":"
       IN  <<SubSeq(s, 1, k - 1)>> \o SplitColon(SubSeq(s, k + 1, Len(s)))

\* n.toString() for n >= 0
RECURSIVE NatToText(_)
NatToText(n) ==
  IF n < 10 THEN <<DigitChar(n)>>
  ELSE NatToText(n \div 10) \o <<DigitChar(n % 10)>>

\* s.padStart(2, '0')
padStart2(s) == IF Len(s) < 2 THEN <<"0">> \o s ELSE s

\* the characters of a text as one string
RECURSIVE Str(_)
Str(s) == IF s = <<>> THEN "" ELSE Head(s) \o Str(Tail(s))

(***************************************************************************)
(* lib/vdot.ts                                                             *)
(***************************************************************************)
NoTime == [ok |-> FALSE, hours |-> 0, minutes |-> 0, seconds |-> 0,
           totalSeconds |-> 0]

parseTime(timeStr) ==
  IF timeStr = <<>> THEN NoTime
  ELSE
    LET parts == SplitColon(timeStr)
        nums  == [i \in 1..Len(parts) |-> NumberOf(parts[i])]
    IN  IF \E i \in 1..Len(parts) : nums[i].nan THEN NoTime
        ELSE IF Len(parts) \notin {2, 3} THEN NoTime
        ELSE
          LET hours   == IF Len(parts) = 3 THEN nums[1].val ELSE 0
              minutes == IF Len(parts) = 3 THEN nums[2].val ELSE nums[1].val
              seconds == IF Len(parts) = 3 THEN nums[3].val ELSE nums[2].val
          IN  IF minutes >= 60 \/ seconds >= 60 \/ minutes < 0
                 \/ seconds < 0 \/ hours < 0
              THEN NoTime
              ELSE [ok |-> TRUE, hours |-> hours, minutes |-> minutes,
                    seconds |-> seconds,
                    totalSeconds |-> hours * 3600 + minutes * 60 + seconds]

formatTime_minutesOfTotal(totalTenths) ==
  LET hours   == totalTenths \div 36000
      minutes == totalTenths \div 600
      seconds == ((totalTenths % 600) + 5) \div 10
  IN  IF hours > 0
      THEN NatToText(hours) \o <<":">> \o padStart2(NatToText(minutes))
             \o <<":">> \o padStart2(NatToText(seconds))
      ELSE NatToText(minutes) \o <<":">> \o padStart2(NatToText(seconds))

\* formatTime(totalSeconds), totalSeconds given in tenths of a second so
\* that fractional values can be passed; Math.round rounds a half up
formatTime(totalTenths) ==
  LET hours   == totalTenths \div 36000
      minutes == (totalTenths % 36000) \div 600
      seconds == ((totalTenths % 600) + 5) \div 10
  IN  IF hours > 0
      THEN NatToText(hours) \o <<":">> \o padStart2(NatToText(minutes))
             \o <<":">> \o padStart2(NatToText(seconds))
      ELSE NatToText(minutes) \o <<":">> \o padStart2(NatToText(seconds))

\* formatPace(secondsPerKm, unit): the pace as whole seconds and 1e-5 s
\* (secondsPerKm * 1.60934 is secondsPerKm + secondsPerKm * 0.60934), then
\* minutes:seconds; Math.round rounds a half up
formatPace(secondsPerKm, unit) ==
  LET extra5  == IF unit = "mile" THEN secondsPerKm * 60934 ELSE 0
      whole   == secondsPerKm + (extra5 \div 100000)
      frac5   == extra5 % 100000
      minutes == whole \div 60
      seconds == (whole % 60) + (IF frac5 >= 50000 THEN 1 ELSE 0)
  IN  NatToText(minutes) \o <<":">> \o padStart2(NatToText(seconds))

\* a * b / 1e6 for a, b in 0..1e6 (millionths), without leaving 32 bits
MulMicro(a, b) ==
  (((a \div 1000) * b) + (((a % 1000) * b) \div 1000)) \div 1000

\* Math.exp(-f) for f in [0,1), in millionths: Horner form of the series
RECURSIVE ExpSeries(_, _)
ExpSeries(f, k) ==
  IF k > ExpTerms THEN 1000000
  ELSE 1000000 - (MulMicro(f, ExpSeries(f, k + 1)) \div k)

RECURSIVE ExpPow(_, _)
ExpPow(r, n) == IF n = 0 \/ r = 0 THEN r ELSE ExpPow(MulMicro(r, 367879), n - 1)

\* Math.exp(-x), x >= 0 in millionths
ExpNeg(x) == ExpPow(ExpSeries(x % 1000000, 1), x \div 1000000)

vo2At_negativeSquare(a1, a0) ==
  LET sq == a1 * a1
  IN  [units |-> 182 * (a1 \div 1000) - ((104 * (sq \div 10000)) \div 100),
       micro |-> 258000 * (a1 \div 1000) + 182258 * (a1 % 1000)
                 + ((182258 * a0) \div 10000)
                 - ((104 * (sq \div 10000)) % 100) * 10000
                 - 104 * (sq % 10000)
                 - ((((a1 * a0) \div 100) * 208) \div 100)
                 - ((((a0 * a0) \div 10000) * 104) \div 10000)
                 - 4600000]

\* vo2 = -4.6 + 0.182258 * velocity + 0.000104 * velocity * velocity for the
\* velocity a1 + a0 / 1e4 metres per minute, as units + micro / 1e6: the
\* whole units of the large terms are kept apart so that a velocity of
\* 42195 m/min (a marathon in 60 s) stays in 32 bits
vo2At(a1, a0) ==
  LET sq == a1 * a1
  IN  [units |-> 182 * (a1 \div 1000) + ((104 * (sq \div 10000)) \div 100),
       micro |-> 258000 * (a1 \div 1000) + 182258 * (a1 % 1000)
                 + ((182258 * a0) \div 10000)
                 + ((104 * (sq \div 10000)) % 100) * 10000
                 + 104 * (sq % 10000)
                 + ((((a1 * a0) \div 100) * 208) \div 100)
                 + ((((a0 * a0) \div 10000) * 104) \div 10000)
                 - 4600000]

\* vo2 for a distance in half metres and a time in seconds > 0: the
\* velocity is 30 * dist2 / timeSeconds metres per minute
vo2Of(dist2, timeSeconds) ==
  vo2At((30 * dist2) \div timeSeconds,
        (((30 * dist2) % timeSeconds) * 10000) \div timeSeconds)

\* percentVO2max in millionths
percentVO2max(timeSeconds) ==
  800000
  + MulMicro(189439, ExpNeg((12778 * timeSeconds) \div 60))
  + MulMicro(298956,
             ExpNeg(3221 * timeSeconds + ((847 * timeSeconds) \div 100000)))

\* Math.round(vo2 / pct * 10): the quotient by long division, a half
\* rounded up
roundedTenths(vo2, pct) ==
  LET q1 == (vo2.units * 1000) \div pct
      r1 == (vo2.units * 1000) % pct
      q2 == (r1 * 1000) \div pct
      r2 == (r1 * 1000) % pct
      q3 == (r2 + vo2.micro) \div pct
      r3 == (r2 + vo2.micro) % pct
      d1 == (r3 * 10) \div pct
      r4 == (r3 * 10) % pct
  IN  (q1 * 1000 + q2 + q3) * 10 + d1 + (IF 2 * r4 >= pct THEN 1 ELSE 0)

\* calculateVDOT(distanceMeters, timeSeconds) in tenths; the distance is
\* given in half metres (21097.5 m is 42195), the time in seconds > 0
calculateVDOT(dist2, timeSeconds) ==
  roundedTenths(vo2Of(dist2, timeSeconds), percentVO2max(timeSeconds))

\* the binade of k / 10 > 0: the n with 2^(n - 5) <= k / 10 < 2^(n - 4)
RECURSIVE binadeOf(_, _)
binadeOf(k, n) == IF 8 * k < 5 * 2^n THEN n ELSE binadeOf(k, n + 1)

\* the error of the double nearest to k / 10, k >= 0, in units of
\* 2^-56 / 10: with s = 57 - n the double is m / 2^s for the whole m nearest
\* k * 2^s / 10, and 2^s mod 10 is 2, 4, 8 or 6
tenthError(k) ==
  LET n == binadeOf(k, 1)
      p == CASE (57 - n) % 4 = 1 -> 2 [] (57 - n) % 4 = 2 -> 4
             [] (57 - n) % 4 = 3 -> 8 [] OTHER -> 6
      r == (k * p) % 10
  IN  (IF r < 5 THEN 0 - r ELSE 10 - r) * 2^(n - 1)

withinTolerance_twoTenths(calculatedVdot, vdot1000) ==
  calculatedVdot * 100 - vdot1000 \in -200..200

\* Math.abs(calculatedVdot - vdot) < tolerance, for calculatedVdot in tenths
\* and vdot in thousandths. Two doubles one tenth apart differ by less than
\* the double 0.1 exactly when the larger was rounded down more than the
\* smaller (their difference is computed without error, and the double 0.1
\* exceeds 0.1 by less than any such error); every other difference is
\* farther from 0.1 than the errors are
withinTolerance(calculatedVdot, vdot1000) ==
  LET diff == calculatedVdot * 100 - vdot1000
      v    == vdot1000 \div 100
  IN  IF vdot1000 % 100 = 0 /\ diff = 100 /\ v >= 0
        THEN tenthError(calculatedVdot) < tenthError(v)
      ELSE IF vdot1000 % 100 = 0 /\ diff = -100 /\ calculatedVdot >= 0
        THEN tenthError(v) < tenthError(calculatedVdot)
      ELSE diff \in -99..99

\* the loop of calculateTimeFromVDOT(vdot, distanceMeters): the target in
\* thousandths (vdot * 0.88 + 5 is not a whole tenth), the distance in half
\* metres; gives the time returned and whether it was returned from inside
\* the loop
RECURSIVE timeSearch(_, _, _, _)
timeSearch(vdot1000, dist2, low, high) ==
  IF ~(high - low > 1) THEN [time |-> (low + high + 1) \div 2, early |-> FALSE]
  ELSE
    LET mid            == (low + high) \div 2
        calculatedVdot == calculateVDOT(dist2, mid)
    IN  IF withinTolerance(calculatedVdot, vdot1000)
          THEN [time |-> mid, early |-> TRUE]
        ELSE IF calculatedVdot * 100 > vdot1000
          THEN timeSearch(vdot1000, dist2, mid, high)
        ELSE timeSearch(vdot1000, dist2, low, mid)

calculateTimeFromVDOT(vdot1000, dist2) ==
  timeSearch(vdot1000, dist2, 60, 21600).time

(***************************************************************************)
(* lib/paces.ts                                                            *)
(***************************************************************************)
\* distances in half metres
DISTANCE_METERS ==
  [d \in {"5K", "10K", "21K", "42K"} |->
     CASE d = "5K" -> 10000 [] d = "10K" -> 20000
       [] d = "21K" -> 42195 [] d = "42K" -> 84390]

\* calculateThresholdPace(vdot): the time over 15 km at vdot * 0.88 + 5;
\* the pace is that time / 15, kept as the time (fifteenths of a second)
calculateThresholdPace(vdot) == calculateTimeFromVDOT(vdot * 88 + 5000, 30000)

calculateThresholdPaceFrom10K_perMile(time10KSeconds) == time10KSeconds * 169

\* calculateThresholdPaceFrom10K(time10KSeconds), in 1/1000 s: pace10K is
\* time10KSeconds / 10 and the result pace10K * 1.05
calculateThresholdPaceFrom10K(time10KSeconds) == time10KSeconds * 105

calculateEasyPaceFromThreshold_same(threshold15) == threshold15 * 100

\* calculateEasyPaceFromThreshold(thresholdPace): thresholdPace * 1.38, in
\* hundredths of the unit of thresholdPace (1/1500 s for a time over 15 km)
calculateEasyPaceFromThreshold(threshold15) == threshold15 * 138

calculateNSIntervalPaces_rounded(vdot) ==
  LET t15K == calculateTimeFromVDOT(vdot * 100, 30000)
      tHM  == calculateTimeFromVDOT(vdot * 100, DISTANCE_METERS["21K"])
      t30K == calculateTimeFromVDOT(vdot * 100, 60000)
      r15K == (2 * t15K + 15) \div 30
      rHM  == (2 * tHM * 10000 + 210975) \div 421950
      r30K == (2 * t30K + 30) \div 60
  IN  [short  |-> [min |-> r15K - 3, max |-> r15K + 4],
       medium |-> [min |-> rHM - 3,  max |-> rHM + 4],
       long   |-> [min |-> r30K - 3, max |-> r30K + 5]]

\* calculateNSIntervalPaces(vdot)
calculateNSIntervalPaces(vdot) ==
  LET t15K == calculateTimeFromVDOT(vdot * 100, 30000)
      tHM  == calculateTimeFromVDOT(vdot * 100, DISTANCE_METERS["21K"])
      t30K == calculateTimeFromVDOT(vdot * 100, 60000)
      f15K == t15K \div 15                  \* floor(pace15K)
      fHM  == (tHM * 10000) \div 210975     \* floor(paceHM)
      f30K == t30K \div 30                  \* floor(pace30K)
  IN  [short  |-> [min |-> f15K - 3, max |-> f15K + 4],
       medium |-> [min |-> fHM - 3,  max |-> fHM + 4],
       long   |-> [min |-> f30K - 3, max |-> f30K + 5]]

\* calculatePaces(vdot): Math.round of threshold and easy
calculatePaces(vdot) ==
  LET threshold == calculateThresholdPace(vdot)
      easy      == calculateEasyPaceFromThreshold(threshold)
  IN  [threshold |-> (2 * threshold + 15) \div 30,
       easy      |-> (2 * easy + 1500) \div 3000,
       intervals |-> calculateNSIntervalPaces(vdot)]

\* calculatePacesFrom10K(time10KSeconds): threshold in 1/1000 s, easy in
\* 1/100000 s, both rounded; the vdot of the interval paces is the literal
\* 56.9
calculatePacesFrom10K(time10KSeconds) ==
  LET threshold == calculateThresholdPaceFrom10K(time10KSeconds)
      easy      == calculateEasyPaceFromThreshold(threshold)
      vdot      == 569
      intervals == calculateNSIntervalPaces(vdot)
  IN  [threshold |-> (2 * threshold + 1000) \div 2000,
       easy      |-> (2 * easy + 100000) \div 200000,
       intervals |-> intervals]

\* validateOfficialExample(): the paces in 1/1000 s and 1/100000 s
validateOfficialExample ==
  LET time10K           == 37 * 60
      expectedThreshold == 3 * 60 + 50
      expectedEasy      == 5 * 60 + 18
      threshold         == calculateThresholdPaceFrom10K(time10K)
      easy              == calculateEasyPaceFromThreshold(threshold)
      thresholdOk       == threshold - expectedThreshold * 1000
                             \in -10000..10000
      easyOk            == easy - expectedEasy * 100000 \in -1500000..1500000
  IN  thresholdOk /\ easyOk

NS_INTERVALS_longRecovery ==
  [short  |-> [duration |-> "3-4'",   recovery |-> 90],
   medium |-> [duration |-> "6-8'",   recovery |-> 90],
   long   |-> [duration |-> "10-12'", recovery |-> 90]]

\* NS_INTERVALS.byTime; the en dash of the duration labels is written "-"
NS_INTERVALS ==
  [short  |-> [duration |-> "3-4'",   recovery |-> 60],
   medium |-> [duration |-> "6-8'",   recovery |-> 60],
   long   |-> [duration |-> "10-12'", recovery |-> 60]]

(***************************************************************************)
(* lib/plan-generator.ts                                                   *)
(***************************************************************************)
Distances == {"5K", "10K", "21K", "42K"}

EASY_RUN_DURATIONS ==
  [d \in Distances |->
     CASE d = "5K"  -> [base |-> 45, max |-> 45, unload |-> 30]
       [] d = "10K" -> [base |-> 50, max |-> 50, unload |-> 35]
       [] d = "21K" -> [base |-> 60, max |-> 60, unload |-> 40]
       [] d = "42K" -> [base |-> 75, max |-> 75, unload |-> 50]]

LONG_RUN_DURATIONS ==
  [d \in Distances |->
     CASE d = "5K"  -> [base |-> 70,  max |-> 70,  unload |-> 45]
       [] d = "10K" -> [base |-> 85,  max |-> 85,  unload |-> 55]
       [] d = "21K" -> [base |-> 105, max |-> 105, unload |-> 70]
       [] d = "42K" -> [base |-> 130, max |-> 130, unload |-> 90]]

INTERVAL_REPS_BY_DISTANCE ==
  [d \in Distances |->
     LET stable == CASE d = "5K"  -> [short |-> 10, medium |-> 5, long |-> 3]
                     [] d = "10K" -> [short |-> 12, medium |-> 6, long |-> 3]
                     [] d = "21K" -> [short |-> 12, medium |-> 6, long |-> 4]
                     [] d = "42K" -> [short |-> 14, medium |-> 8, long |-> 5]
         unload == CASE d = "5K"  -> [short |-> 6, medium |-> 3, long |-> 2]
                     [] d = "10K" -> [short |-> 8, medium |-> 4, long |-> 2]
                     [] d = "21K" -> [short |-> 8, medium |-> 4, long |-> 3]
                     [] d = "42K" -> [short |-> 8, medium |-> 5, long |-> 3]
     IN  <<stable, stable, stable, stable, stable, unload>>]

\* the module-level template as the literal sets it when the module loads;
\* a session slot: intervalType is optional, <<>> when absent
BASE_WEEK_STRUCTURE ==
  << [type |-> "easy",      intervalType |-> <<>>],            \* Monday
     [type |-> "threshold", intervalType |-> <<"short">>],     \* Tuesday
     [type |-> "easy",      intervalType |-> <<>>],            \* Wednesday
     [type |-> "threshold", intervalType |-> <<"medium">>],    \* Thursday
     [type |-> "easy",      intervalType |-> <<>>],            \* Friday
     [type |-> "threshold", intervalType |-> <<"long">>],      \* Saturday
     [type |-> "long",      intervalType |-> <<>>] >>          \* Sunday

RestSlot == [type |-> "rest", intervalType |-> <<>>]

TestSlot == [type |-> "test", intervalType |-> <<>>]

Max(a, b) == IF a >= b THEN a ELSE b

Min(a, b) == IF a <= b THEN a ELSE b

\* mutant: Wednesday given up before Monday
removalPriority_v2 == <<4, 2, 0, 5, 3>>

\* mutant: index 6 (Sunday) where index 5 (Saturday) belongs
removalPriority_sunday == <<4, 0, 2, 6, 3>>

\* 0-based day indices, in the order in which days are given up
removalPriority == <<4, 0, 2, 5, 3>>

\* mutant: the day count taken as given
targetDaysOf_unclamped(trainingDays) == trainingDays

\* Math.max(3, Math.min(7, Math.floor(trainingDays))); trainingDays is an
\* integer here, on which Math.floor changes nothing
targetDaysOf(trainingDays) == Max(3, Min(7, trainingDays))

\* the array BASE_WEEK_STRUCTURE as it is now: module state that every call
\* of the plan generator reads
VARIABLE weekTemplate

\* getWeekStructure(trainingDays), read from the template as it is now
getWeekStructure(trainingDays) ==
  LET targetDays   == targetDaysOf(trainingDays)
      daysToRemove == 7 - targetDays
      toRemove     == SubSeq(removalPriority, 1,
                             Min(daysToRemove, Len(removalPriority)))
  IN  IF targetDays = 7 THEN weekTemplate
      ELSE [i \in 1..Len(weekTemplate) |->
              IF \E k \in 1..Len(toRemove) : toRemove[k] = i - 1
              THEN RestSlot
              ELSE weekTemplate[i]]

structureShared_alias == TRUE

\* whether the array getWeekStructure writes the rest slots into is
\* BASE_WEEK_STRUCTURE itself: .map((s) => ({ ...s })) makes a new array
structureShared == FALSE

\* the template after a call that ran getWeekStructure(trainingDays)
templateAfter(trainingDays) ==
  IF structureShared THEN getWeekStructure(trainingDays) ELSE weekTemplate

getEasyDuration(weekNumber, targetDistance, day) ==
  IF weekNumber = 6 THEN EASY_RUN_DURATIONS[targetDistance].unload
  ELSE EASY_RUN_DURATIONS[targetDistance].base

getLongDuration(weekNumber, targetDistance) ==
  IF weekNumber = 6 THEN LONG_RUN_DURATIONS[targetDistance].unload
  ELSE LONG_RUN_DURATIONS[targetDistance].base

getIntervalReps_firstWeek(weekNumber, intervalType, targetDistance) ==
  INTERVAL_REPS_BY_DISTANCE[targetDistance][1][intervalType]

getIntervalReps(weekNumber, intervalType, targetDistance) ==
  LET distanceConfig == INTERVAL_REPS_BY_DISTANCE[targetDistance]
      weekConfig     == IF weekNumber \in 1..Len(distanceConfig)
                        THEN distanceConfig[weekNumber]
                        ELSE distanceConfig[1]
  IN  weekConfig[intervalType]

\* a TrainingSession; the optional fields duration, intervals, paces and
\* race are <<>> when absent and a one-element tuple when set; in the
\* descriptions the multiplication sign is written "x"
baseSessionOf(day, type) ==
  [day |-> day, type |-> type, title |-> "", description |-> "",
   duration |-> <<>>, intervals |-> <<>>, paces |-> <<>>, race |-> <<>>]

createSession(day, sessionConfig, paces, weekNumber, targetDistance, isTestWeek, unit) ==
  LET type        == sessionConfig.type
      unitLabel   == IF unit = "km" THEN "km" ELSE "mi"
      baseSession == baseSessionOf(day, type)
  IN  CASE type = "easy" ->
             LET duration == getEasyDuration(weekNumber, targetDistance, day)
             IN  [baseSession EXCEPT
                    !.title = "Easy Run",
                    !.description = ToString(duration) \o " min @ easy pace",
                    !.duration = <<duration>>,
                    !.paces = <<[target |-> paces.easy, range |-> <<>>]>>]
        [] type = "threshold" ->
             LET interval  == IF sessionConfig.intervalType = <<>> THEN "short"
                              ELSE sessionConfig.intervalType[1]
                 nsConfig  == NS_INTERVALS[interval]
                 paceRange == paces.intervals[interval]
                 reps      == getIntervalReps(weekNumber, interval,
                                              targetDistance)
                 intervalName == IF interval = "short" THEN "Short"
                                 ELSE IF interval = "medium" THEN "Medium"
                                 ELSE "Long"
             IN  [baseSession EXCEPT
                    !.title = "NS " \o intervalName \o " Sub-T",
                    !.description =
                       ToString(reps) \o " x " \o nsConfig.duration \o " @ "
                       \o Str(formatPace(paceRange.min, unit)) \o "-"
                       \o Str(formatPace(paceRange.max, unit)) \o "/"
                       \o unitLabel \o " (60s rec)",
                    !.intervals =
                       <<[type |-> interval,
                          reps |-> [min |-> reps, max |-> reps],
                          duration |-> nsConfig.duration,
                          paceRange |-> paceRange,
                          recovery |-> nsConfig.recovery]>>,
                    !.paces =
                       <<[target |-> (paceRange.min + paceRange.max + 1) \div 2,
                          range |-> <<paceRange>>]>>]
        [] type = "long" ->
             LET duration == getLongDuration(weekNumber, targetDistance)
             IN  [baseSession EXCEPT
                    !.title = "Long Run",
                    !.description = ToString(duration) \o " min @ easy pace",
                    !.duration = <<duration>>,
                    !.paces = <<[target |-> paces.easy, range |-> <<>>]>>]
        [] type = "test" ->
             [baseSession EXCEPT
                !.title = "Test Day",
                !.description = "Time trial 5K or 10K - max effort"]
        [] type = "race" ->
             [baseSession EXCEPT
                !.title = "Race Day", !.description = "Race"]
        [] type = "rest" ->
             [baseSession EXCEPT
                !.title = "Rest",
                !.description = "Active recovery or complete rest"]
        [] OTHER -> baseSession

\* minutes of one session, in half minutes (a short rep is 3.5 minutes)
sessionHalfMinutes(session) ==
  IF session.type \in {"easy", "long"}
  THEN IF session.duration = <<>> THEN 0 ELSE 2 * session.duration[1]
  ELSE IF session.type = "threshold" /\ session.intervals # <<>>
       THEN LET iv == session.intervals[1]
            IN  30 + iv.reps.min * (IF iv.type = "short" THEN 7
                                    ELSE IF iv.type = "medium" THEN 14
                                    ELSE 22) + 20
       ELSE 0

RECURSIVE sumHalfMinutes(_, _)
sumHalfMinutes(sessions, i) ==
  IF i > Len(sessions) THEN 0
  ELSE sessionHalfMinutes(sessions[i]) + sumHalfMinutes(sessions, i + 1)

\* Math.round(totalMinutes / 5.5)
calculateWeekVolume(weekNumber, sessions) ==
  (2 * sumHalfMinutes(sessions, 1) + 11) \div 22

\* mutant: the override only where the structure still holds a threshold
testDayOverride_thresholdOnly(isTestWeek, index, config) ==
  isTestWeek /\ index = 5 /\ config.type = "threshold"

\* mutant: the override one slot late
testDayOverride_sunday(isTestWeek, index, config) == isTestWeek /\ index = 6

\* the guard of the test-day override: on the test week the slot at index 5
\* (Saturday) becomes the test, whatever the structure holds there
testDayOverride(isTestWeek, index, config) == isTestWeek /\ index = 5

generateWeekPlan(weekNumber, trainingDays, paces, targetDistance, unit) ==
  LET isTestWeek == (weekNumber = 6)
      structure  == getWeekStructure(trainingDays)
      sessions   ==
        [index \in 1..Len(structure) |->
           IF testDayOverride(isTestWeek, index - 1, structure[index])
           THEN createSession(index, TestSlot, paces, weekNumber,
                              targetDistance, TRUE, unit)
           ELSE createSession(index, structure[index], paces, weekNumber,
                              targetDistance, isTestWeek, unit)]
  IN  [weekNumber |-> weekNumber,
       isTestWeek |-> isTestWeek,
       isRecoveryWeek |-> isTestWeek,
       sessions |-> sessions,
       totalVolume |-> calculateWeekVolume(weekNumber, sessions)]

\* mutant: the loop stops one week early
generateTrainingBlock_fiveWeeks(blockNumber, input, vdot, paces) ==
  [blockNumber |-> blockNumber,
   weeks |-> [week \in 1..5 |->
                generateWeekPlan(week, input.trainingDays, paces,
                                 input.targetDistance, input.unit)],
   vdot |-> vdot,
   paces |-> paces]

generateTrainingBlock(blockNumber, input, vdot, paces) ==
  [blockNumber |-> blockNumber,
   weeks |-> [week \in 1..6 |->
                generateWeekPlan(week, input.trainingDays, paces,
                                 input.targetDistance, input.unit)],
   vdot |-> vdot,
   paces |-> paces]

\* parseTimeString(timeStr): the module's own, unchecked parser
parseTimeString(timeStr) ==
  LET parts == SplitColon(timeStr)
      nums  == [i \in 1..Len(parts) |-> NumberOf(parts[i])]
  IN  IF \E i \in 1..Len(parts) : nums[i].nan
      THEN [null |-> TRUE, val |-> 0]
      ELSE IF Len(parts) = 2
      THEN [null |-> FALSE, val |-> nums[1].val * 60 + nums[2].val]
      ELSE IF Len(parts) = 3
      THEN [null |-> FALSE,
            val |-> nums[1].val * 3600 + nums[2].val * 60 + nums[3].val]
      ELSE [null |-> TRUE, val |-> 0]

\* mutant: a defined-ness test in place of the truthiness test
TruthyText_defined(field) == field # <<>>

\* JavaScript truthiness of an optional string and of number | null
TruthyText(field) == field # <<>> /\ field[1] # <<>>

TruthyParsed(parsed) == ~parsed.null /\ parsed.val # 0

\* mutant: the 5K time tried first
usedTimeField_prefers5K(input) ==
  IF TruthyText(input.time5K) THEN "5K"
  ELSE IF TruthyText(input.time10K) THEN "10K"
  ELSE "none"

\* which time the if / else-if chain of createTrainingPlan uses
usedTimeField(input) ==
  IF TruthyText(input.time10K) THEN "10K"
  ELSE IF TruthyText(input.time5K) THEN "5K"
  ELSE "none"

applyRaces_lastSunday(block, races) ==
  IF races = <<>> THEN block
  ELSE [block EXCEPT !.weeks[6].sessions[7].type = "race"]

\* what createTrainingPlan does to the block for input.races: the loop over
\* the races is commented out
applyRaces(block, races) == block

\* createTrainingPlan(input): error is "" and block is <<b>> on return,
\* error is the message and block is <<>> on throw; calls lists the
\* (distance, time) pairs handed to calculateVDOT
createTrainingPlan(input) ==
  LET field  == usedTimeField(input)
      text   == IF field = "10K" THEN input.time10K[1] ELSE input.time5K[1]
      parsed == parseTimeString(text)
      vdot   == calculateVDOT(DISTANCE_METERS[field], parsed.val)
      paces  == calculatePaces(vdot)
  IN  IF field = "none"
      THEN [error |-> "At least one race time is required",
            block |-> <<>>, calls |-> <<>>]
      ELSE IF TruthyParsed(parsed)
      THEN [error |-> "",
            block |-> <<applyRaces(
                          generateTrainingBlock(1, input, vdot, paces),
                          input.races)>>,
            calls |-> << <<DISTANCE_METERS[field], parsed.val>> >>]
      ELSE [error |-> "Invalid " \o field \o " time format",
            block |-> <<>>, calls |-> <<>>]

(***************************************************************************)
(* Inputs of the model                                                     *)
(***************************************************************************)
\* an optional time string: <<>> is undefined, <<text>> a string;
\* the time10K values tried
TimeTexts ==
  { <<>>,                                        \* undefined
    << <<>> >>,                                  \* ""
    << <<"3", "7", ":", "0", "0">> >>,           \* 37:00
    << <<"2", "0", ":", "3", "0">> >>,           \* 20:30
    << <<"1", ":", "0", "5", ":", "3", "0">> >>, \* 1:05:30
    << <<"0", ":", "0", "0">> >>,                \* 0:00
    << <<"3", "7", ":", "7", "5">> >>,           \* 37:75  seconds >= 60
    << <<"7", "5", ":", "0", "0">> >>,           \* 75:00  minutes >= 60
    << <<"3", "7", ":", "-", "5">> >>,           \* 37:-5  negative part
    << <<"3", "a", ":", "0", "0">> >>,           \* 3a:00  non-numeric part
    << <<"3", "7">> >>,                          \* 37     one part
    << <<"1", ":", "0", ":", "0", ":", "0">> >>  \* 1:0:0:0  four parts
  }

\* the time5K values tried
TimeTexts5K ==
  { <<>>,
    << <<>> >>,
    << <<"2", "0", ":", "3", "0">> >>,           \* 20:30
    << <<"0", ":", "0", "0">> >>,                \* 0:00
    << <<"2", "0", ":", "6", "0">> >>,           \* 20:60  seconds >= 60
    << <<"2", "a", ":", "0", "0">> >>,           \* 2a:00  non-numeric part
    << <<"2", "0">> >>                           \* 20     one part
  }

DayCounts == (3 - ExtraDays)..(7 + ExtraDays)

Units == {"km", "mile"}

Races ==
  { [id |-> "r1", name |-> "City Run", date |-> "2026-05-01",
     type |-> t, distance |-> "10K"] : t \in {"A", "B"} }

\* the non-empty race lists tried
RaceLists ==
  { <<r>> : r \in Races } \cup { <<r1, r2>> : r1 \in Races, r2 \in Races }

\* the inputs tried with races: valid, malformed and missing times
RacedInputs ==
  [targetDistance : Distances,
   time5K : { <<>>, << <<"2", "0", ":", "3", "0">> >> },
   time10K : { <<>>, << <<"3", "7", ":", "0", "0">> >>,
               << <<"3", "7", ":", "7", "5">> >> },
   trainingDays : {3, 5, 7}, unit : {"km"}, races : RaceLists]

UserInputs ==
  [targetDistance : Distances, time5K : TimeTexts5K, time10K : TimeTexts,
   trainingDays : DayCounts, unit : Units, races : {<<>>}]
    \cup RacedInputs

NoInput ==
  [targetDistance |-> "10K", time5K |-> <<>>, time10K |-> <<>>,
   trainingDays |-> 5, unit |-> "km", races |-> <<>>]

NoResult == [error |-> "", block |-> <<>>, calls |-> <<>>]

\* the (vdot, paces) pairs handed to generateTrainingBlock directly
SampleVdots == {300, 569}

NoRace ==
  [id |-> "", name |-> "", date |-> "", type |-> "B", distance |-> "10K"]

(***************************************************************************)
(* State                                                                   *)
(***************************************************************************)
VARIABLES
  op,            \* the call in progress or last made: "none",
                 \* "createTrainingPlan", "generateTrainingBlock",
                 \* "applyRaceTapering"
  input,         \* its UserInput
  result,        \* what createTrainingPlan / generateTrainingBlock gave
  tpc,           \* applyRaceTapering: "none", "outer", "inner", "done"
  block,         \* applyRaceTapering: the block argument, <<>> or <<b>>
  blockBefore,   \* the block argument as it was when the call was made
  race,          \* applyRaceTapering: the race argument
  raceWeek,
  raceDay,
  updatedBlock,  \* the copy of the block, <<>> or <<b>>
  week,          \* the copy of the race week, <<>> or <<w>>
  daysToTaper,
  currentWeek,
  currentDay,
  returned,      \* what applyRaceTapering returned, <<>> or <<b>>
  previous,      \* the plan call made before the one in op, input, result
  cop,           \* lib/vdot.ts text functions: the one applied last
  timeStr,       \* the string handed to parseTime
  parsed,        \* what parseTime(timeStr) gave
  totalTenths,   \* the number handed to formatTime / formatPace, in 0.1 s
  formatted,     \* what formatTime / formatPace gave
  reparsed,      \* what parseTime(formatted) gave
  spc,           \* calculateTimeFromVDOT: "none", "test", "probe", "done"
  low,
  high,
  mid,
  iterations,    \* passes of the while loop begun so far
  found,         \* the time calculateTimeFromVDOT returned
  vdotDistance,  \* calculateVDOT: the distance, in half metres
  vdotTime,      \* calculateVDOT: the time t, in seconds
  vdots,         \* <<>> or <<calculateVDOT at t, calculateVDOT at t + 1>>
  tripVdot,      \* round trip: the vdot, in tenths
  tripDistance,  \* round trip: the distance, in half metres
  trip,          \* <<>> or the time found for them and the vdot of it
  paceCall,      \* lib/paces.ts: the function called, or "none"
  paceArg,       \* its argument: a vdot in tenths or a time in seconds
  paceOut,       \* <<>> or what it returned
  lookDistance,  \* duration and rep look-ups: the target distance
  lookDay,       \* the day handed to getEasyDuration
  lookType,      \* the interval type handed to getIntervalReps
  looked,        \* what each look-up gave in the weeks 1..6
  stored,        \* localStorage['ns-user-data']: <<>> or <<snapshot>>
  subPc,         \* handleSubmit: "idle", "saveInput", "saveBlock"
  subInput,      \* the UserInput it built
  subBlock,      \* <<>> or the block createTrainingPlan gave it
  subError,      \* the error it set
  clock          \* submissions made so far: the time of new Date()

vars == <<op, input, result, tpc, block, blockBefore, race, raceWeek, raceDay,
          updatedBlock, week, daysToTaper, currentWeek, currentDay, returned,
          weekTemplate, previous,
          cop, timeStr, parsed, totalTenths, formatted, reparsed,
          spc, low, high, mid, iterations, found,
          vdotDistance, vdotTime, vdots,
          tripVdot, tripDistance, trip,
          paceCall, paceArg, paceOut,
          lookDistance, lookDay, lookType, looked,
          stored, subPc, subInput, subBlock, subError, clock>>

codecVars == <<cop, timeStr, parsed, totalTenths, formatted, reparsed>>

searchVars == <<spc, low, high, mid, iterations, found>>

vdotVars == <<vdotDistance, vdotTime, vdots>>

tripVars == <<tripVdot, tripDistance, trip>>

\* the calls of lib/paces.ts, lib/storage.ts and the round trip
paceVars == <<paceCall, paceArg, paceOut>>

tableVars == <<lookDistance, lookDay, lookType, looked>>

storeVars == <<stored, subPc, subInput, subBlock, subError, clock>>

libVars == <<tripVars, paceVars, tableVars, storeVars>>

\* what the calls of the state machine below leave alone
otherVars == <<previous, codecVars, searchVars, vdotVars, libVars>>

NoCodec ==
  /\ cop = "none"
  /\ timeStr = <<>>
  /\ parsed = NoTime
  /\ totalTenths = 0
  /\ formatted = <<>>
  /\ reparsed = NoTime

NoSearch ==
  /\ spc = "none"
  /\ low = 0
  /\ high = 0
  /\ mid = 0
  /\ iterations = 0
  /\ found = 0

NoVdot ==
  /\ vdotDistance = 0
  /\ vdotTime = 0
  /\ vdots = <<>>

NoTrip ==
  /\ tripVdot = 0
  /\ tripDistance = 0
  /\ trip = <<>>

NoPace ==
  /\ paceCall = "none"
  /\ paceArg = 0
  /\ paceOut = <<>>

\* no look-up made: each field is <<>> or <<the values of weeks 1..6>>
NoneLooked == [easy |-> <<>>, long |-> <<>>, reps |-> <<>>]

NoTable ==
  /\ lookDistance = "10K"
  /\ lookDay = 0
  /\ lookType = "short"
  /\ looked = NoneLooked

\* nothing stored and no submission made
NoStore ==
  /\ stored = <<>>
  /\ subPc = "idle"
  /\ subInput = NoInput
  /\ subBlock = <<>>
  /\ subError = ""
  /\ clock = 0

NoLib == NoTrip /\ NoPace /\ NoTable /\ NoStore

NoCall == [op |-> "none", input |-> NoInput, result |-> NoResult]

planVars == <<input, result>>

taperVars == <<tpc, block, blockBefore, race, raceWeek, raceDay, updatedBlock,
               week, daysToTaper, currentWeek, currentDay, returned>>

NoTaper ==
  /\ tpc' = "none"
  /\ block' = <<>>
  /\ blockBefore' = <<>>
  /\ race' = NoRace
  /\ raceWeek' = 0
  /\ raceDay' = 0
  /\ updatedBlock' = <<>>
  /\ week' = <<>>
  /\ daysToTaper' = 0
  /\ currentWeek' = 0
  /\ currentDay' = 0
  /\ returned' = <<>>

Init ==
  /\ op = "none"
  /\ input = NoInput
  /\ result = NoResult
  /\ tpc = "none"
  /\ block = <<>>
  /\ blockBefore = <<>>
  /\ race = NoRace
  /\ raceWeek = 0
  /\ raceDay = 0
  /\ updatedBlock = <<>>
  /\ week = <<>>
  /\ daysToTaper = 0
  /\ currentWeek = 0
  /\ currentDay = 0
  /\ returned = <<>>
  /\ weekTemplate = BASE_WEEK_STRUCTURE
  /\ previous = NoCall
  /\ NoCodec
  /\ NoSearch
  /\ NoVdot
  /\ NoLib

(***************************************************************************)
(* Operations                                                              *)
(***************************************************************************)
\* a caller calls createTrainingPlan(in)
CreateTrainingPlan ==
  /\ op = "none"
  /\ \E in \in UserInputs :
       /\ input' = in
       /\ result' = createTrainingPlan(in)
       /\ weekTemplate' = IF result'.block # <<>>
                          THEN templateAfter(in.trainingDays)
                          ELSE weekTemplate
  /\ op' = "createTrainingPlan"
  /\ NoTaper
  /\ UNCHANGED otherVars

\* a caller calls generateTrainingBlock(1, in, vdot, calculatePaces(vdot))
GenerateTrainingBlock ==
  /\ op = "none"
  /\ \E v \in SampleVdots, d \in Distances, n \in DayCounts, u \in Units :
       LET in == [NoInput EXCEPT !.targetDistance = d, !.trainingDays = n,
                                 !.unit = u]
       IN  /\ input' = in
           /\ result' = [error |-> "",
                         block |-> <<generateTrainingBlock(
                                       1, in, v, calculatePaces(v))>>,
                         calls |-> <<>>]
           /\ weekTemplate' = templateAfter(n)
  /\ op' = "generateTrainingBlock"
  /\ NoTaper
  /\ UNCHANGED otherVars

\* the session that applyRaceTapering puts on the race day
raceSession(r, day) ==
  [day |-> day, type |-> "race",
   title |-> "Race Day: " \o r.name,
   description |-> r.distance \o " race - "
                   \o (IF r.type = "A" THEN "Priority" ELSE "Tune-up"),
   duration |-> <<>>, intervals |-> <<>>, paces |-> <<>>, race |-> <<r>>]

taperDaysOf(r) == IF r.type = "A" THEN 7 ELSE 3

taperSession_cutsIntervals(session) ==
  IF session.type = "threshold"
  THEN [session EXCEPT !.title = "NS Intervals (Taper)",
                       !.description = "Reduced volume - maintain intensity",
                       !.intervals = <<>>]
  ELSE IF session.type = "long"
  THEN [session EXCEPT !.type = "easy",
                       !.title = "Easy Run (Taper)",
                       !.description = "40 min @ easy pace",
                       !.duration = <<40>>]
  ELSE session

\* what the taper pass makes of one session it visits
taperSession(session) ==
  IF session.type = "threshold"
  THEN [session EXCEPT !.title = "NS Intervals (Taper)",
                       !.description = "Reduced volume - maintain intensity"]
  ELSE IF session.type = "long"
  THEN [session EXCEPT !.type = "easy",
                       !.title = "Easy Run (Taper)",
                       !.description = "40 min @ easy pace",
                       !.duration = <<40>>]
  ELSE session

\* whether updatedBlock.weeks is the array block.weeks itself: the spread
\* [...block.weeks] makes a new array
weeksShared == FALSE

\* whether week.sessions is the sessions array of the week passed in: the
\* spread [...sessions] makes a new array
sessionsShared_alias == TRUE

sessionsShared == FALSE

\* the block passed in after week.sessions[i] = x: a store into week.sessions
\* reaches it only through a shared array
storeSession(b, w, i, x) ==
  IF sessionsShared THEN [b EXCEPT !.weeks[w].sessions[i] = x] ELSE b

\* the block passed in after updatedBlock.weeks[w] = x
storeWeek(b, w, x) ==
  IF weeksShared THEN [b EXCEPT !.weeks[w] = x] ELSE b

\* the blocks handed to applyRaceTapering
TaperBlocks ==
  { generateTrainingBlock(
      1, [NoInput EXCEPT !.targetDistance = d, !.trainingDays = n],
      569, calculatePaces(569)) : d \in Distances, n \in 3..7 }

RaceWeeks == 0..7

RaceDays == 0..8

\* a caller calls applyRaceTapering(b, r, w, d): the code up to the loop
ApplyRaceTapering ==
  /\ op = "none"
  /\ \E b \in TaperBlocks, r \in Races, w \in RaceWeeks, d \in RaceDays :
       LET weekIndex == w - 1
           dayIndex  == d - 1
           src       == b.weeks[weekIndex + 1]
       IN  /\ blockBefore' = <<b>>
           /\ block' =
                IF /\ weekIndex >= 0 /\ weekIndex < Len(b.weeks)
                   /\ dayIndex >= 0 /\ dayIndex < Len(src.sessions)
                THEN <<storeSession(b, w, d, raceSession(r, d))>>
                ELSE <<b>>
           /\ race' = r
           /\ raceWeek' = w
           /\ raceDay' = d
           /\ IF weekIndex < 0 \/ weekIndex >= Len(b.weeks)
              THEN /\ tpc' = "done"
                   /\ returned' = <<b>>
                   /\ updatedBlock' = <<b>>
                   /\ week' = <<>>
                   /\ daysToTaper' = taperDaysOf(r)
                   /\ currentWeek' = 0
                   /\ currentDay' = 0
              ELSE /\ tpc' = "outer"
                   /\ returned' = <<>>
                   /\ updatedBlock' = <<b>>
                   /\ week' =
                        <<[src EXCEPT !.sessions =
                             IF dayIndex >= 0 /\ dayIndex < Len(src.sessions)
                             THEN [@ EXCEPT ![dayIndex + 1] = raceSession(r, d)]
                             ELSE @]>>
                   /\ daysToTaper' = taperDaysOf(r)
                   /\ currentWeek' = weekIndex
                   /\ currentDay' = dayIndex - 1
  /\ op' = "applyRaceTapering"
  /\ UNCHANGED <<planVars, weekTemplate, otherVars>>

\* the outer while holds: enter the inner while
TaperEnter ==
  /\ tpc = "outer"
  /\ daysToTaper > 0 /\ currentWeek >= 0
  /\ tpc' = "inner"
  /\ UNCHANGED <<weekTemplate, otherVars, op, planVars, block, blockBefore, race, raceWeek, raceDay,
                 updatedBlock, week, daysToTaper, currentWeek, currentDay,
                 returned>>

\* one pass of the inner while: the session at week.sessions[currentDay]
TaperDay ==
  /\ tpc = "inner"
  /\ currentDay >= 0 /\ daysToTaper > 0
  /\ week' = <<[week[1] EXCEPT !.sessions[currentDay + 1] =
                                  taperSession(@)]>>
  /\ block' = <<storeSession(block[1], raceWeek, currentDay + 1,
                             taperSession(week[1].sessions[currentDay + 1]))>>
  /\ currentDay' = currentDay - 1
  /\ daysToTaper' = daysToTaper - 1
  /\ UNCHANGED <<weekTemplate, otherVars, op, planVars, tpc, blockBefore, race, raceWeek, raceDay,
                 updatedBlock, currentWeek, returned>>

\* the inner while is over: step to the week before, if there is one
TaperWrap ==
  /\ tpc = "inner"
  /\ ~(currentDay >= 0 /\ daysToTaper > 0)
  /\ IF daysToTaper > 0 /\ currentWeek > 0
     THEN currentWeek' = currentWeek - 1 /\ currentDay' = 6
     ELSE UNCHANGED <<currentWeek, currentDay>>
  /\ tpc' = "outer"
  /\ UNCHANGED <<weekTemplate, otherVars, op, planVars, block, blockBefore, race, raceWeek, raceDay,
                 updatedBlock, week, daysToTaper, returned>>

\* the outer while is over: store the week and return the copy
TaperReturn ==
  /\ tpc = "outer"
  /\ ~(daysToTaper > 0 /\ currentWeek >= 0)
  /\ updatedBlock' = <<[updatedBlock[1] EXCEPT !.weeks[raceWeek] = week[1]]>>
  /\ returned' = updatedBlock'
  /\ block' = <<storeWeek(block[1], raceWeek, week[1])>>
  /\ tpc' = "done"
  /\ UNCHANGED <<weekTemplate, otherVars, op, planVars, blockBefore, race, raceWeek, raceDay, week,
                 daysToTaper, currentWeek, currentDay>>

\* the caller has taken the result; the next call can be made
Return ==
  /\ op # "none"
  /\ op = "applyRaceTapering" => tpc = "done"
  /\ op' = "none"
  /\ input' = NoInput
  /\ result' = NoResult
  /\ NoTaper
  /\ UNCHANGED <<weekTemplate, otherVars>>

Next ==
  \/ CreateTrainingPlan
  \/ GenerateTrainingBlock
  \/ ApplyRaceTapering
  \/ TaperEnter
  \/ TaperDay
  \/ TaperWrap
  \/ TaperReturn
  \/ Return

Spec == Init /\ [][Next]_vars

\* a call of applyRaceTapering runs to completion: a loop step that can be
\* taken is taken
FairSpec ==
  /\ Spec
  /\ WF_vars(TaperEnter)
  /\ WF_vars(TaperDay)
  /\ WF_vars(TaperWrap)
  /\ WF_vars(TaperReturn)

\* ---- calls of the plan generator one after the other ----
\* the paces handed to generateTrainingBlock: calculatePaces(569)
SeqPaces ==
  [threshold |-> 234, easy |-> 323,
   intervals |-> [short  |-> [min |-> 224, max |-> 231],
                  medium |-> [min |-> 229, max |-> 236],
                  long   |-> [min |-> 235, max |-> 243]]]

SeqInputs ==
  [targetDistance : {"5K", "42K"}, time5K : {<<>>},
   time10K : { << <<"3", "7", ":", "0", "0">> >> },
   trainingDays : {3, 7}, unit : {"km"}, races : {<<>>}]

\* generateTrainingBlock(1, in, 569, SeqPaces) right after the call before
SeqGenerate ==
  /\ \E d \in Distances, n \in 3..7 :
       LET in == [NoInput EXCEPT !.targetDistance = d, !.trainingDays = n]
       IN  /\ input' = in
           /\ result' = [error |-> "",
                         block |-> <<generateTrainingBlock(
                                       1, in, 569, SeqPaces)>>,
                         calls |-> <<>>]
           /\ weekTemplate' = templateAfter(n)
  /\ op' = "generateTrainingBlock"
  /\ previous' = [op |-> op, input |-> input, result |-> result]
  /\ UNCHANGED <<taperVars, codecVars, searchVars, vdotVars, libVars>>

\* createTrainingPlan(in) right after the call before
SeqCreate ==
  /\ \E in \in SeqInputs :
       /\ input' = in
       /\ result' = createTrainingPlan(in)
       /\ weekTemplate' = IF result'.block # <<>>
                          THEN templateAfter(in.trainingDays)
                          ELSE weekTemplate
  /\ op' = "createTrainingPlan"
  /\ previous' = [op |-> op, input |-> input, result |-> result]
  /\ UNCHANGED <<taperVars, codecVars, searchVars, vdotVars, libVars>>

SeqNext ==
  \/ SeqGenerate
  \/ SeqCreate

SeqSpec == Init /\ [][SeqNext]_vars

\* ---- the text functions of lib/vdot.ts ----
\* most parts of a time string tried
MaxParts == 4

\* the parts a time string is put together from: empty, digits with and
\* without a leading zero, 59 and 60, three digits, a minus sign, a letter
PartTexts ==
  { <<>>, <<"0">>, <<"7">>, <<"0", "7">>, <<"5", "9">>, <<"6", "0">>,
    <<"1", "2", "5">>, <<"-", "5">>, <<"-", "0">>, <<"a">> }

\* parts joined by ':'
RECURSIVE JoinColon(_)
JoinColon(parts) ==
  IF Len(parts) = 1 THEN parts[1]
  ELSE parts[1] \o <<":">> \o JoinColon(Tail(parts))

TimeStrings ==
  UNION { { JoinColon(ps) : ps \in [1..k -> PartTexts] } : k \in 1..MaxParts }

\* most hours of a number handed to formatTime
MaxHours == 2

\* the numbers handed to formatTime, in tenths of a second: every tenth of
\* the minute, in the minutes 0, 4, 9, 10 and 59 of the hours 0..MaxHours
SecondsTenths ==
  { h * 36000 + m * 600 + t : h \in 0..MaxHours, m \in {0, 4, 9, 10, 59},
                              t \in 0..599 }

\* the caller has a string for parseTime or a number for formatTime and
\* formatPace
CodecInit ==
  /\ op = "none"
  /\ input = NoInput
  /\ result = NoResult
  /\ tpc = "none"
  /\ block = <<>>
  /\ blockBefore = <<>>
  /\ race = NoRace
  /\ raceWeek = 0
  /\ raceDay = 0
  /\ updatedBlock = <<>>
  /\ week = <<>>
  /\ daysToTaper = 0
  /\ currentWeek = 0
  /\ currentDay = 0
  /\ returned = <<>>
  /\ weekTemplate = BASE_WEEK_STRUCTURE
  /\ previous = NoCall
  /\ cop = "none"
  /\ parsed = NoTime
  /\ formatted = <<>>
  /\ reparsed = NoTime
  /\ \/ timeStr \in TimeStrings /\ totalTenths = 0
     \/ timeStr = <<>> /\ totalTenths \in SecondsTenths
  /\ NoSearch
  /\ NoVdot
  /\ NoLib

\* the plan calls and the tapering call
planCallVars == <<op, input, result, taperVars, weekTemplate, previous>>

planAndTaperVars0 == <<planCallVars, libVars>>

planAndTaperVars == <<planAndTaperVars0, searchVars, vdotVars>>

\* parseTime(timeStr)
ParseTime ==
  /\ cop = "none"
  /\ parsed' = parseTime(timeStr)
  /\ cop' = "parseTime"
  /\ UNCHANGED <<planAndTaperVars, timeStr, totalTenths, formatted, reparsed>>

\* formatTime(parsed.totalSeconds) of an accepted string
FormatParsed ==
  /\ cop = "parseTime" /\ parsed.ok
  /\ totalTenths' = 10 * parsed.totalSeconds
  /\ formatted' = formatTime(10 * parsed.totalSeconds)
  /\ cop' = "formatParsed"
  /\ UNCHANGED <<planAndTaperVars, timeStr, parsed, reparsed>>

\* parseTime(formatted) of what formatTime gave
Reparse ==
  /\ cop = "formatParsed"
  /\ reparsed' = parseTime(formatted)
  /\ cop' = "reparse"
  /\ UNCHANGED <<planAndTaperVars, timeStr, parsed, totalTenths, formatted>>

\* formatTime(totalSeconds) of a number, fractional ones too
FormatTime ==
  /\ cop = "none"
  /\ formatted' = formatTime(totalTenths)
  /\ cop' = "formatTime"
  /\ UNCHANGED <<planAndTaperVars, timeStr, parsed, totalTenths, reparsed>>

\* formatPace(secondsPerKm, unit) of a whole number of seconds per km
FormatPace ==
  /\ cop = "none"
  /\ totalTenths % 10 = 0
  /\ \E unit \in Units :
       /\ formatted' = formatPace(totalTenths \div 10, unit)
       /\ cop' = IF unit = "mile" THEN "formatPaceMile" ELSE "formatPaceKm"
  /\ UNCHANGED <<planAndTaperVars, timeStr, parsed, totalTenths, reparsed>>

CodecNext ==
  \/ ParseTime
  \/ FormatParsed
  \/ Reparse
  \/ FormatTime
  \/ FormatPace

CodecSpec == CodecInit /\ [][CodecNext]_vars

\* ---- calculateTimeFromVDOT, one loop step at a time ----
\* most passes of the loop followed
MaxIterations == 20

searchContinues_untilEqual(lo, hi) == hi - lo > 0

\* the loop test: while (high - low > 1)
searchContinues(lo, hi) == hi - lo > 1

\* a caller calls calculateTimeFromVDOT(vdot, distanceMeters)
SearchStart ==
  /\ spc = "none"
  /\ low' = 60
  /\ high' = 21600
  /\ spc' = "test"
  /\ UNCHANGED <<planAndTaperVars0, codecVars, vdotVars, mid, iterations, found>>

\* the loop test holds: mid is set and calculateVDOT(distanceMeters, mid)
\* is called
SearchProbe ==
  /\ spc = "test"
  /\ searchContinues(low, high)
  /\ iterations < MaxIterations
  /\ mid' = (low + high) \div 2
  /\ iterations' = iterations + 1
  /\ spc' = "probe"
  /\ UNCHANGED <<planAndTaperVars0, codecVars, vdotVars, low, high, found>>

\* calculateVDOT gave a value within the tolerance: return mid
SearchHit ==
  /\ spc = "probe"
  /\ found' = mid
  /\ spc' = "done"
  /\ UNCHANGED <<planAndTaperVars0, codecVars, vdotVars, low, high, mid, iterations>>

\* calculateVDOT gave a value above vdot: low = mid
SearchFaster ==
  /\ spc = "probe"
  /\ low' = mid
  /\ spc' = "test"
  /\ UNCHANGED <<planAndTaperVars0, codecVars, vdotVars, high, mid, iterations, found>>

\* calculateVDOT gave any other value, NaN too: high = mid
SearchSlower ==
  /\ spc = "probe"
  /\ high' = mid
  /\ spc' = "test"
  /\ UNCHANGED <<planAndTaperVars0, codecVars, vdotVars, low, mid, iterations, found>>

\* the loop test fails: return Math.round((low + high) / 2)
SearchExit ==
  /\ spc = "test"
  /\ ~searchContinues(low, high)
  /\ found' = (low + high + 1) \div 2
  /\ spc' = "done"
  /\ UNCHANGED <<planAndTaperVars0, codecVars, vdotVars, low, high, mid, iterations>>

SearchNext ==
  \/ SearchStart
  \/ SearchProbe
  \/ SearchHit
  \/ SearchFaster
  \/ SearchSlower
  \/ SearchExit

SearchSpec == Init /\ [][SearchNext]_vars

\* ---- calculateVDOT at neighbouring times ----
\* 5000, 10000, 21097.5 and 42195 m in half metres
VdotDistances == {10000, 20000, 42195, 84390}

\* the times t with t and t + 1 in the search range of
\* calculateTimeFromVDOT, 1 minute to 6 hours
VdotTimes == 60..21599

\* the caller has a distance and a time
VdotInit ==
  /\ op = "none"
  /\ input = NoInput
  /\ result = NoResult
  /\ tpc = "none"
  /\ block = <<>>
  /\ blockBefore = <<>>
  /\ race = NoRace
  /\ raceWeek = 0
  /\ raceDay = 0
  /\ updatedBlock = <<>>
  /\ week = <<>>
  /\ daysToTaper = 0
  /\ currentWeek = 0
  /\ currentDay = 0
  /\ returned = <<>>
  /\ weekTemplate = BASE_WEEK_STRUCTURE
  /\ previous = NoCall
  /\ NoCodec
  /\ NoSearch
  /\ vdotDistance \in VdotDistances
  /\ vdotTime \in VdotTimes
  /\ vdots = <<>>
  /\ NoLib

\* calculateVDOT(distance, t) and calculateVDOT(distance, t + 1)
CalculateVDOT ==
  /\ vdots = <<>>
  /\ vdotDistance # 0
  /\ vdots' = <<calculateVDOT(vdotDistance, vdotTime),
                calculateVDOT(vdotDistance, vdotTime + 1)>>
  /\ UNCHANGED <<planAndTaperVars0, codecVars, searchVars, vdotDistance,
                 vdotTime>>

VdotNext == CalculateVDOT

VdotSpec == VdotInit /\ [][VdotNext]_vars

\* ---- calculateTimeFromVDOT and calculateVDOT of its result ----
\* no plan call and no tapering call has been made
IdlePlan ==
  /\ op = "none"
  /\ input = NoInput
  /\ result = NoResult
  /\ tpc = "none"
  /\ block = <<>>
  /\ blockBefore = <<>>
  /\ race = NoRace
  /\ raceWeek = 0
  /\ raceDay = 0
  /\ updatedBlock = <<>>
  /\ week = <<>>
  /\ daysToTaper = 0
  /\ currentWeek = 0
  /\ currentDay = 0
  /\ returned = <<>>
  /\ weekTemplate = BASE_WEEK_STRUCTURE
  /\ previous = NoCall

\* the vdot values 30.0, 30.1 .. 85.0, in tenths
TripVdots == 300..850

\* the caller has a vdot and a distance
TripInit ==
  /\ IdlePlan
  /\ NoCodec
  /\ NoSearch
  /\ NoVdot
  /\ NoStore
  /\ tripVdot \in TripVdots
  /\ tripDistance \in VdotDistances
  /\ trip = <<>>
  /\ NoPace
  /\ NoTable

\* calculateVDOT(d, calculateTimeFromVDOT(v, d))
RoundTrip ==
  /\ trip = <<>>
  /\ tripDistance # 0
  /\ trip' = LET s == timeSearch(tripVdot * 100, tripDistance, 60, 21600)
             IN  <<[time  |-> s.time,
                    early |-> s.early,
                    vdot  |-> calculateVDOT(tripDistance, s.time)]>>
  /\ UNCHANGED <<planCallVars, codecVars, searchVars, vdotVars, storeVars, paceVars,
                 tableVars, tripVdot, tripDistance>>

TripNext == RoundTrip

TripSpec == TripInit /\ [][TripNext]_vars

\* ---- lib/paces.ts, one call at a time ----
\* the vdot values 0.1, 0.2 .. 100.0, in tenths
PaceVdots == 1..1000

\* the 10K times 20:00 .. 60:00, in seconds
PaceTimes == 1200..3600

\* the caller has a function of lib/paces.ts and an argument for it
PaceInit ==
  /\ IdlePlan
  /\ NoCodec
  /\ NoSearch
  /\ NoVdot
  /\ NoStore
  /\ NoTrip
  /\ NoTable
  /\ \/ paceCall = "calculatePaces" /\ paceArg \in PaceVdots
     \/ paceCall = "calculateNSIntervalPaces" /\ paceArg \in PaceVdots
     \/ paceCall = "calculatePacesFrom10K" /\ paceArg \in PaceTimes
     \/ paceCall = "validateOfficialExample" /\ paceArg = 0
  /\ paceOut = <<>>

\* Math.round(easy) where the exact product thresholdPace * 1.38 ends in
\* .5: the double product may fall just below the half (57.49999999999999
\* for a threshold time of 625 s), so either neighbour can come out
easyRounded(vdot) ==
  LET easy == calculateEasyPaceFromThreshold(calculateThresholdPace(vdot))
  IN  IF (2 * easy) % 3000 = 1500
        THEN {calculatePaces(vdot).easy - 1, calculatePaces(vdot).easy}
      ELSE {calculatePaces(vdot).easy}

\* calculatePaces(vdot)
CalculatePaces ==
  /\ paceCall = "calculatePaces"
  /\ paceOut = <<>>
  /\ \E e \in easyRounded(paceArg) :
       paceOut' = <<[calculatePaces(paceArg) EXCEPT !.easy = e]>>
  /\ UNCHANGED <<planCallVars, codecVars, searchVars, vdotVars, storeVars, tripVars,
                 tableVars, paceCall, paceArg>>

\* calculateNSIntervalPaces(vdot)
CalculateNSIntervalPaces ==
  /\ paceCall = "calculateNSIntervalPaces"
  /\ paceOut = <<>>
  /\ paceOut' = <<calculateNSIntervalPaces(paceArg)>>
  /\ UNCHANGED <<planCallVars, codecVars, searchVars, vdotVars, storeVars, tripVars,
                 tableVars, paceCall, paceArg>>

\* calculatePacesFrom10K(time10KSeconds)
CalculatePacesFrom10K ==
  /\ paceCall = "calculatePacesFrom10K"
  /\ paceOut = <<>>
  /\ paceOut' = <<calculatePacesFrom10K(paceArg)>>
  /\ UNCHANGED <<planCallVars, codecVars, searchVars, vdotVars, storeVars, tripVars,
                 tableVars, paceCall, paceArg>>

\* validateOfficialExample()
ValidateOfficialExample ==
  /\ paceCall = "validateOfficialExample"
  /\ paceOut = <<>>
  /\ paceOut' = <<validateOfficialExample>>
  /\ UNCHANGED <<planCallVars, codecVars, searchVars, vdotVars, storeVars, tripVars,
                 tableVars, paceCall, paceArg>>

PaceNext ==
  \/ CalculatePaces
  \/ CalculateNSIntervalPaces
  \/ CalculatePacesFrom10K
  \/ ValidateOfficialExample

PaceSpec == PaceInit /\ [][PaceNext]_vars

\* ---- getEasyDuration, getLongDuration, getIntervalReps ----
\* the weeks of a block
Weeks == 1..6

\* the caller has a target distance, a day and an interval type
TableInit ==
  /\ IdlePlan
  /\ NoCodec
  /\ NoSearch
  /\ NoVdot
  /\ NoStore
  /\ NoTrip
  /\ NoPace
  /\ lookDistance \in Distances
  /\ lookDay \in 0..6
  /\ lookType \in {"short", "medium", "long"}
  /\ looked = NoneLooked

\* getEasyDuration(weekNumber, targetDistance, day) for the weeks 1..6
GetEasyDuration ==
  /\ looked.easy = <<>>
  /\ looked' = [looked EXCEPT !.easy =
       <<[w \in Weeks |-> getEasyDuration(w, lookDistance, lookDay)]>>]
  /\ UNCHANGED <<planCallVars, codecVars, searchVars, vdotVars, storeVars, tripVars,
                 paceVars, lookDistance, lookDay, lookType>>

\* getLongDuration(weekNumber, targetDistance) for the weeks 1..6
GetLongDuration ==
  /\ looked.long = <<>>
  /\ looked' = [looked EXCEPT !.long =
       <<[w \in Weeks |-> getLongDuration(w, lookDistance)]>>]
  /\ UNCHANGED <<planCallVars, codecVars, searchVars, vdotVars, storeVars, tripVars,
                 paceVars, lookDistance, lookDay, lookType>>

\* getIntervalReps(weekNumber, intervalType, targetDistance) for the weeks
\* 1..6
GetIntervalReps ==
  /\ looked.reps = <<>>
  /\ looked' = [looked EXCEPT !.reps =
       <<[w \in Weeks |-> getIntervalReps(w, lookType, lookDistance)]>>]
  /\ UNCHANGED <<planCallVars, codecVars, searchVars, vdotVars, storeVars, tripVars,
                 paceVars, lookDistance, lookDay, lookType>>

TableNext ==
  \/ GetEasyDuration
  \/ GetLongDuration
  \/ GetIntervalReps

TableSpec == TableInit /\ [][TableNext]_vars

\* ---- TrainingForm.handleSubmit and lib/storage.ts ----
\* most submissions followed
MaxSubmits == 3

\* a Partial<UserData>: each field <<>> when absent
NoData == [input |-> <<>>, vdot |-> <<>>, paces |-> <<>>, currentBlock |-> <<>>]

\* getUserData(): null, written <<>>, when nothing is stored or when
\* localStorage.getItem or JSON.parse throws. JSON.stringify leaves out the
\* undefined fields, which are the <<>> of this model, and every number
\* stored is finite, so the stored text parses back to the value written
getUserData(item, readFails) == IF readFails THEN <<>> ELSE item

\* what saveUserData(data) leaves in localStorage at the time now:
\* { ...existing, ...data, updatedAt, createdAt }, or the item as it was
\* when localStorage.setItem throws
saveUserData(item, data, now, readFails, writeFails) ==
  LET existing == getUserData(item, readFails)
      old      == IF existing = <<>> THEN NoData ELSE existing[1]
      updated  ==
        [input        |-> IF data.input # <<>> THEN data.input ELSE old.input,
         vdot         |-> IF data.vdot # <<>> THEN data.vdot ELSE old.vdot,
         paces        |-> IF data.paces # <<>> THEN data.paces ELSE old.paces,
         currentBlock |-> IF data.currentBlock # <<>> THEN data.currentBlock
                          ELSE old.currentBlock,
         updatedAt    |-> now,
         createdAt    |-> IF existing = <<>> THEN now
                          ELSE existing[1].createdAt]
  IN  IF writeFails THEN item ELSE <<updated>>

\* the state of the form when it is submitted: the texts of the two time
\* fields, <<>> for ''
SubmitForms ==
  [targetDistance : {"10K"},
   time5K : {<<>>, <<"2", "0", ":", "3", "0">>},
   time10K : {<<>>, <<"3", "7", ":", "0", "0">>, <<"4", "0", ":", "0", "0">>,
              <<"0", ":", "0", "0">>, <<"3", "a", ":", "0", "0">>},
   trainingDays : {5},
   unit : {"km"}]

\* validateTime(time)
validateTime(time) == IF time = <<>> THEN TRUE ELSE parseTime(time).ok

\* handleSubmit up to the call of saveInput: validation, the UserInput and
\* createTrainingPlan, whose throw is caught
HandleSubmit ==
  /\ subPc = "idle"
  /\ clock < MaxSubmits
  /\ clock' = clock + 1
  /\ \E form \in SubmitForms :
       LET in == [targetDistance |-> form.targetDistance,
                  time5K  |-> IF form.time5K = <<>> THEN <<>>
                              ELSE <<form.time5K>>,
                  time10K |-> IF form.time10K = <<>> THEN <<>>
                              ELSE <<form.time10K>>,
                  trainingDays |-> form.trainingDays,
                  unit |-> form.unit,
                  races |-> <<>>]
           plan == createTrainingPlan(in)
       IN  IF form.time5K = <<>> /\ form.time10K = <<>>
             THEN /\ subError' = "validationRequired"
                  /\ UNCHANGED <<subPc, subInput, subBlock>>
           ELSE IF ~validateTime(form.time5K) \/ ~validateTime(form.time10K)
             THEN /\ subError' = "validationFormat"
                  /\ UNCHANGED <<subPc, subInput, subBlock>>
           ELSE IF plan.block = <<>>
             THEN /\ subError' = plan.error
                  /\ UNCHANGED <<subPc, subInput, subBlock>>
           ELSE /\ subError' = ""
                /\ subInput' = in
                /\ subBlock' = plan.block
                /\ subPc' = "saveInput"
  /\ UNCHANGED <<planCallVars, codecVars, searchVars, vdotVars, tripVars,
                 paceVars, tableVars, stored>>

\* saveInput(input, block.vdot, block.paces); the read and the write of
\* localStorage may each throw
SaveInput ==
  /\ subPc = "saveInput"
  /\ \E readFails \in BOOLEAN, writeFails \in BOOLEAN :
       stored' = saveUserData(stored,
                              [NoData EXCEPT !.input = <<subInput>>,
                                             !.vdot = <<subBlock[1].vdot>>,
                                             !.paces = <<subBlock[1].paces>>],
                              clock, readFails, writeFails)
  /\ subPc' = "saveBlock"
  /\ UNCHANGED <<planCallVars, codecVars, searchVars, vdotVars, tripVars,
                 paceVars, tableVars, subInput, subBlock, subError, clock>>

\* saveBlock(block), and the page is left for the plan page
SaveBlock ==
  /\ subPc = "saveBlock"
  /\ \E readFails \in BOOLEAN, writeFails \in BOOLEAN :
       stored' = saveUserData(stored,
                              [NoData EXCEPT !.currentBlock = subBlock],
                              clock, readFails, writeFails)
  /\ subPc' = "idle"
  /\ UNCHANGED <<planCallVars, codecVars, searchVars, vdotVars, tripVars,
                 paceVars, tableVars, subInput, subBlock, subError, clock>>

StoreNext ==
  \/ HandleSubmit
  \/ SaveInput
  \/ SaveBlock

StoreSpec == Init /\ [][StoreNext]_vars

(***************************************************************************)
(* Properties                                                              *)
(***************************************************************************)
\* a call that built a plan has returned
PlanCall == op \in {"createTrainingPlan", "generateTrainingBlock"}

HasBlock == PlanCall /\ result.block # <<>>

TheBlock == result.block[1]

\* an optional string that is undefined or ""
NotSet(field) == field = <<>> \/ field = << <<>> >>

FormatErrors == {"Invalid 10K time format", "Invalid 5K time format"}

\* C1: createTrainingPlan with neither time5K nor time10K set (undefined or
\* empty), whatever the distance and the day count, throws 'At least one
\* race time is required', returns no block, and that error is not one of
\* the invalid-format errors.
C1_TimeRequired ==
  (op = "createTrainingPlan" /\ NotSet(input.time5K) /\ NotSet(input.time10K))
    => /\ result.error = "At least one race time is required"
       /\ result.block = <<>>
       /\ result.error \notin FormatErrors

C1_Witness ==
  /\ op = "createTrainingPlan"
  /\ input.targetDistance = "5K" /\ input.trainingDays = 5
  /\ input.time5K = << <<>> >> /\ input.time10K = <<>>
  /\ result.error = "At least one race time is required"

\* the time string createTrainingPlan is documented to use: time10K if it is
\* non-empty, otherwise time5K
UsedText ==
  IF ~NotSet(input.time10K) THEN input.time10K[1] ELSE input.time5K[1]

UsedName == IF ~NotSet(input.time10K) THEN "10K" ELSE "5K"

\* C2: when the used time field is a string that parseTime rejects,
\* createTrainingPlan throws 'Invalid 10K time format' / 'Invalid 5K time
\* format' naming that field, hands nothing to calculateVDOT and returns
\* no block.
C2_MalformedTimeRejected ==
  (/\ op = "createTrainingPlan"
   /\ ~(NotSet(input.time5K) /\ NotSet(input.time10K))
   /\ ~parseTime(UsedText).ok)
    => /\ result.error = "Invalid " \o UsedName \o " time format"
       /\ result.calls = <<>>
       /\ result.block = <<>>

\* the slot (session type and interval type) of a session
SlotOf(session) ==
  [type |-> session.type,
   intervalType |-> IF session.intervals = <<>> THEN <<>>
                    ELSE <<session.intervals[1].type>>]

CanonicalTemplate ==
  << [type |-> "easy",      intervalType |-> <<>>],
     [type |-> "threshold", intervalType |-> <<"short">>],
     [type |-> "easy",      intervalType |-> <<>>],
     [type |-> "threshold", intervalType |-> <<"medium">>],
     [type |-> "easy",      intervalType |-> <<>>],
     [type |-> "threshold", intervalType |-> <<"long">>],
     [type |-> "long",      intervalType |-> <<>>] >>

\* Friday, Monday, Wednesday, Saturday, Thursday as days 1..7
PriorityDays == <<5, 1, 3, 6, 4>>

ExpectedSlots(n) ==
  [day \in 1..7 |->
     IF \E k \in 1..(7 - n) : PriorityDays[k] = day
     THEN [type |-> "rest", intervalType |-> <<>>]
     ELSE CanonicalTemplate[day]]

\* C3: for trainingDays n in 3..7 and every week 1..5 of a block, the slots
\* Monday..Sunday are the canonical template with exactly the first 7-n days
\* of [Friday, Monday, Wednesday, Saturday, Thursday] turned into rest.
C3_ReducedWeek ==
  (HasBlock /\ input.trainingDays \in 3..7)
    => \A w \in 1..5 :
         /\ Len(TheBlock.weeks[w].sessions) = 7
         /\ \A day \in 1..7 :
              SlotOf(TheBlock.weeks[w].sessions[day])
                = ExpectedSlots(input.trainingDays)[day]

C3_Witness ==
  /\ HasBlock /\ input.trainingDays = 4
  /\ TheBlock.weeks[1].sessions[5].type = "rest"
  /\ TheBlock.weeks[1].sessions[1].type = "rest"
  /\ TheBlock.weeks[1].sessions[3].type = "rest"
  /\ TheBlock.weeks[1].sessions[6].type = "threshold"

RestCount(w) ==
  Cardinality({day \in 1..Len(w.sessions) : w.sessions[day].type = "rest"})

\* C4 as stated: for n in 3..7 exactly 7-n sessions of every week 1..6 are
\* rest.
C4_RestEveryWeek ==
  (HasBlock /\ input.trainingDays \in 3..7)
    => \A w \in 1..6 : RestCount(TheBlock.weeks[w]) = 7 - input.trainingDays

\* C4: for n in 3..7 exactly 7-n sessions of every week 1..5 are rest; in
\* week 6 exactly 7-n are rest when n >= 4 and exactly 3 when n = 3, where
\* the Saturday given up by the reduction is the test day.
C4_RestCount ==
  (HasBlock /\ input.trainingDays \in 3..7)
    => /\ \A w \in 1..5 :
            RestCount(TheBlock.weeks[w]) = 7 - input.trainingDays
       /\ RestCount(TheBlock.weeks[6]) =
            IF input.trainingDays >= 4 THEN 7 - input.trainingDays ELSE 3

C4_Witness ==
  /\ HasBlock /\ input.trainingDays = 3
  /\ RestCount(TheBlock.weeks[1]) = 4
  /\ RestCount(TheBlock.weeks[6]) = 3

\* C5: in week 6 of every block the Saturday session (index 5, day 6) is the
\* test, also when the reduction made Saturday a rest day; no session of
\* weeks 1..5 is a test.
C5_TestDay ==
  HasBlock
    => /\ TheBlock.weeks[6].sessions[6].type = "test"
       /\ TheBlock.weeks[6].sessions[6].day = 6
       /\ \A w \in 1..5 : \A day \in 1..7 :
            TheBlock.weeks[w].sessions[day].type # "test"

C5_Witness ==
  /\ HasBlock /\ input.trainingDays = 3
  /\ TheBlock.weeks[5].sessions[6].type = "rest"
  /\ TheBlock.weeks[6].sessions[6].type = "test"

\* C6: for every integer trainingDays, inside or outside 3..7, and every
\* week 1..6 of a block, Tuesday is a threshold session of interval type
\* short and Sunday is a long run; neither is rest.
C6_ProtectedDays ==
  HasBlock
    => \A w \in 1..6 :
         /\ SlotOf(TheBlock.weeks[w].sessions[2])
              = [type |-> "threshold", intervalType |-> <<"short">>]
         /\ TheBlock.weeks[w].sessions[7].type = "long"

C6_Witness ==
  /\ HasBlock /\ input.trainingDays = 1
  /\ TheBlock.weeks[2].sessions[6].type = "rest"
  /\ TheBlock.weeks[2].sessions[2].type = "threshold"
  /\ TheBlock.weeks[2].sessions[7].type = "long"

\* the block generateTrainingBlock gives for the same arguments with the
\* day count replaced by n
BlockWithDays(n) ==
  generateTrainingBlock(TheBlock.blockNumber,
                        [input EXCEPT !.trainingDays = n],
                        TheBlock.vdot, TheBlock.paces)

\* C7: generateTrainingBlock rejects no trainingDays: a day count below 3
\* gives the block of trainingDays = 3 and a day count above 7 the block of
\* trainingDays = 7.
C7_DaysClamped ==
  /\ op = "generateTrainingBlock" => result.block # <<>> /\ result.error = ""
  /\ (HasBlock /\ input.trainingDays < 3) => TheBlock = BlockWithDays(3)
  /\ (HasBlock /\ input.trainingDays > 7) => TheBlock = BlockWithDays(7)

C7_Witness ==
  /\ op = "generateTrainingBlock" /\ result.block # <<>>
  /\ input.trainingDays = 2
  /\ RestCount(TheBlock.weeks[1]) = 4

\* C8: every block has exactly 6 weeks numbered 1..6 in order, every week
\* exactly 7 sessions with day 1..7 in order, and isTestWeek and
\* isRecoveryWeek are true for week 6 and for no other week.
C8_BlockShape ==
  HasBlock
    => /\ Len(TheBlock.weeks) = 6
       /\ \A w \in 1..6 :
            /\ TheBlock.weeks[w].weekNumber = w
            /\ TheBlock.weeks[w].isTestWeek = (w = 6)
            /\ TheBlock.weeks[w].isRecoveryWeek = (w = 6)
            /\ Len(TheBlock.weeks[w].sessions) = 7
            /\ \A day \in 1..7 : TheBlock.weeks[w].sessions[day].day = day

C8_Witness ==
  /\ op = "createTrainingPlan" /\ result.block # <<>>
  /\ TheBlock.weeks[6].isTestWeek /\ TheBlock.weeks[6].isRecoveryWeek
  /\ ~TheBlock.weeks[5].isTestWeek
  /\ TheBlock.weeks[3].sessions[4].day = 4

\* C9: a block returned for an input with a time10K has the vdot of
\* calculateVDOT(10000, seconds of time10K), whatever time5K is (absent,
\* valid or malformed), and a time10K that parseTime accepts with a positive
\* time always gives that block; time5K, at 5000 m, is used only when
\* time10K is absent or empty, and never as a fallback for a time10K that
\* is refused.
C9_Prefers10K ==
  op = "createTrainingPlan"
    => /\ (result.block # <<>> /\ ~NotSet(input.time10K))
            => LET t == parseTimeString(input.time10K[1]).val
               IN  /\ TheBlock.vdot = calculateVDOT(20000, t)
                   /\ result.calls = << <<20000, t>> >>
                   /\ parseTime(input.time10K[1]).ok
                        => parseTime(input.time10K[1]).totalSeconds = t
       /\ (result.block # <<>> /\ NotSet(input.time10K))
            => LET t == parseTimeString(input.time5K[1]).val
               IN  /\ TheBlock.vdot = calculateVDOT(10000, t)
                   /\ result.calls = << <<10000, t>> >>
       /\ (/\ ~NotSet(input.time10K)
           /\ parseTime(input.time10K[1]).ok
           /\ parseTime(input.time10K[1]).totalSeconds > 0)
            => result.block # <<>>
       /\ (result.block = <<>> /\ ~NotSet(input.time10K))
            => result.error = "Invalid 10K time format"

C9_Witness ==
  /\ op = "createTrainingPlan" /\ result.block # <<>>
  /\ input.time10K = << <<"3", "7", ":", "0", "0">> >>
  /\ input.time5K = << <<"2", "0", ":", "3", "0">> >>
  /\ TheBlock.vdot = 569
  /\ calculateVDOT(10000, 1230) # 569

\* the position of (week, day) in the calendar of the block
CalendarDay(w, d) == (w - 1) * 7 + d

\* C10: for a race at (raceWeek, raceDay) in the block, the returned block
\* has the race session at that place, and a session elsewhere differs from
\* the one passed in exactly if it is a threshold or long session on one of
\* the taperDays (7 for A, 3 for B) calendar days before the race, counted
\* back through Sunday of the week before; nothing on or after the race day
\* is rewritten.
C10_TaperWindow ==
  (/\ op = "applyRaceTapering" /\ tpc = "done"
   /\ raceWeek \in 1..6 /\ raceDay \in 1..7)
    => LET before == block[1]
           after  == returned[1]
           rc     == CalendarDay(raceWeek, raceDay)
           T      == IF race.type = "A" THEN 7 ELSE 3
       IN  /\ after.weeks[raceWeek].sessions[raceDay].type = "race"
           /\ \A w \in 1..6 : \A d \in 1..7 :
                CalendarDay(w, d) # rc
                  => ((after.weeks[w].sessions[d] # before.weeks[w].sessions[d])
                        <=> (/\ CalendarDay(w, d) < rc
                             /\ CalendarDay(w, d) >= rc - T
                             /\ before.weeks[w].sessions[d].type
                                  \in {"threshold", "long"}))

\* C11: applyRaceTapering terminates and returns a block for every race type
\* and every placement with raceWeek in 1..6 and raceDay in 1..7, also in
\* week 1 when fewer than taperDays days precede the race: a call that has
\* started leads to its return.
C11_TaperTerminates ==
  (/\ op = "applyRaceTapering"
   /\ raceWeek \in 1..6 /\ raceDay \in 1..7)
    ~> (tpc = "done" /\ returned # <<>>)

\* C12: for the session the taper pass visits, a threshold session keeps
\* its type, intervals and paces and changes in title and description only,
\* a long session becomes an easy session of 40 minutes, and an easy, rest,
\* test or race session stays as it is.
C12_TaperFrame ==
  [][TaperDay =>
       LET s == week[1].sessions[currentDay + 1]
           t == week'[1].sessions[currentDay + 1]
       IN  /\ s.type = "threshold"
                => /\ t.type = "threshold"
                   /\ t.intervals = s.intervals
                   /\ t.paces = s.paces
                   /\ t = [s EXCEPT !.title = t.title,
                                    !.description = t.description]
           /\ s.type = "long"
                => /\ t.type = "easy"
                   /\ t.duration = <<40>>
           /\ s.type \in {"easy", "rest", "test", "race"} => t = s]_vars

C12_Witness ==
  /\ op = "applyRaceTapering" /\ tpc = "done" /\ week # <<>>
  /\ \E i \in 1..7 :
       /\ week[1].sessions[i].type = "threshold"
       /\ week[1].sessions[i].title = "NS Intervals (Taper)"
       /\ week[1].sessions[i].intervals # <<>>
  /\ \E j \in 1..7 :
       /\ week[1].sessions[j].type = "easy"
       /\ week[1].sessions[j].title = "Easy Run (Taper)"
       /\ week[1].sessions[j].duration = <<40>>

\* C13: applyRaceTapering does not mutate its input: during and after any
\* call every week and every session of the block passed in equals what it
\* was when the call was made; the changes are in the returned block only.
C13_InputKept ==
  op = "applyRaceTapering" => block = blockBefore

C13_Witness ==
  /\ op = "applyRaceTapering" /\ tpc = "done"
  /\ raceWeek \in 1..6 /\ raceDay \in 1..7
  /\ block = blockBefore
  /\ returned # blockBefore
  /\ \E i \in 1..7 : returned[1].weeks[raceWeek].sessions[i].title
                       \in {"NS Intervals (Taper)", "Easy Run (Taper)"}

C15_NoSharedState ==
  /\ weekTemplate = BASE_WEEK_STRUCTURE
  /\ HasBlock
       => \A w \in 1..5 : \A day \in 1..7 :
            SlotOf(TheBlock.weeks[w].sessions[day])
              = ExpectedSlots(input.trainingDays)[day]
  /\ (op = previous.op /\ input = previous.input)
       => result = previous.result

C15_Witness ==
  /\ HasBlock /\ input.trainingDays = 7
  /\ previous.op # "none" /\ previous.result.block # <<>>
  /\ previous.input.trainingDays = 3
  /\ \A w \in 1..5 : \A day \in 1..7 :
       TheBlock.weeks[w].sessions[day].type # "rest"

\* a part that is a non-negative integer: decimal digits, at least one
IsNatPart(p) == p # <<>> /\ \A i \in 1..Len(p) : p[i] \in Digits

\* 2 or 3 colon-separated non-negative integer parts with minutes < 60 and
\* seconds < 60
WellFormedTime(s) ==
  LET parts == SplitColon(s)
      n     == Len(parts)
  IN  /\ n \in {2, 3}
      /\ \A i \in 1..n : IsNatPart(parts[i])
      /\ DigitsValue(parts[n - 1]) < 60
      /\ DigitsValue(parts[n]) < 60

\* C16: parseTime returns null for the empty string and for every string
\* that is not 2 or 3 colon-separated non-negative integer parts with
\* minutes < 60 and seconds < 60 (non-numeric or empty part, 1 part or 4 and
\* more parts, negative part), and what it returns for a string it accepts
\* has 0 <= minutes, seconds < 60, hours >= 0 and
\* totalSeconds = hours*3600 + minutes*60 + seconds.
C16_ParseTimeRejects ==
  cop = "parseTime"
    => /\ ~WellFormedTime(timeStr) => ~parsed.ok
       /\ parsed.ok
            => /\ parsed.minutes >= 0 /\ parsed.minutes < 60
               /\ parsed.seconds >= 0 /\ parsed.seconds < 60
               /\ parsed.hours >= 0
               /\ parsed.totalSeconds = parsed.hours * 3600
                    + parsed.minutes * 60 + parsed.seconds

\* C17: for every string that parseTime accepts, mm:ss or h:mm:ss, h = 0
\* included, parseTime(formatTime(parseTime(s).totalSeconds)) is not null
\* and has the totalSeconds of parseTime(s).
C17_RoundTrip ==
  cop = "reparse"
    => /\ reparsed.ok
       /\ reparsed.totalSeconds = parsed.totalSeconds

C17_Witness ==
  /\ cop = "reparse"
  /\ timeStr = <<"0", ":", "0", "7", ":", "5", "9">>
  /\ formatted = <<"7", ":", "5", "9">>
  /\ reparsed.ok /\ reparsed.totalSeconds = 479

\* a field of two decimal digits with a value in 00..59
IsField59(p) == Len(p) = 2 /\ IsNatPart(p) /\ DigitsValue(p) <= 59

\* C18: for every non-negative totalSeconds, fractional ones too, formatTime
\* gives 'h:mm:ss' when hours > 0 and 'mm:ss' otherwise, the minutes and the
\* seconds field of exactly two digits and in 00..59; formatPace gives the
\* mm:ss form under the same rules, for unit mile after the multiplication
\* by 1.60934.
C18_FormatFields ==
  LET parts == SplitColon(formatted)
      n     == Len(parts)
  IN  /\ cop = "formatTime"
           => /\ n = IF totalTenths \div 36000 > 0 THEN 3 ELSE 2
              /\ n = 3 => parts[1] = NatToText(totalTenths \div 36000)
              /\ IsField59(parts[n - 1])
              /\ IsField59(parts[n])
      /\ cop \in {"formatPaceKm", "formatPaceMile"}
           => /\ n = 2
              /\ IsField59(parts[1])
              /\ IsField59(parts[2])

\* C19: calculateTimeFromVDOT terminates whatever calculateVDOT returns at
\* the probed times: the loop makes at most 17 passes, in every pass
\* 60 <= low < mid < high <= 21600, and the returned time is in [60, 21600].
C19_SearchBounded ==
  /\ iterations <= 17
  /\ spc = "probe" => (60 <= low /\ low < mid /\ mid < high /\ high <= 21600)
  /\ spc = "done" => (60 <= found /\ found <= 21600)

C19_Witness ==
  /\ spc = "done"
  /\ iterations = 15
  /\ high - low = 1
  /\ found = high

\* C20: for each distance in {5000, 10000, 21097.5, 42195} and all integer
\* times t1 < t2 in [60, 21600], calculateVDOT(distance, t1) is strictly
\* greater than calculateVDOT(distance, t2) on the rounded values returned;
\* stated for t2 = t1 + 1, which the claim covers.
C20_StrictlyDecreasing ==
  vdots # <<>> => vdots[1] > vdots[2]

\* C20 as amended: for each of these distances and all integer times
\* t1 < t2 in [60, 21600], calculateVDOT(distance, t1) >=
\* calculateVDOT(distance, t2) on the rounded values returned; checked for
\* every t2 = t1 + 1, from which every pair follows.
C20_Decreasing ==
  vdots # <<>> => vdots[1] >= vdots[2]

C20_Witness ==
  /\ vdotDistance = 20000 /\ vdotTime = 2220
  /\ vdots = <<569, 569>>

\* C21: for every v in 30..85 in 0.1 steps and every d in {5000, 10000,
\* 21097.5, 42195}, calculateVDOT(d, calculateTimeFromVDOT(v, d)) differs
\* from v by at most the search tolerance 0.1, whether the search returned
\* from inside the loop or ran until high - low <= 1.
C21_RoundTrip ==
  trip # <<>> => trip[1].vdot - tripVdot \in -1..1

\* calculateTimeFromVDOT(30.2, 5000) returns 1836 from inside the loop, and
\* calculateVDOT(5000, 1836) is 30.1
C21_Witness ==
  /\ tripVdot = 302 /\ tripDistance = 10000
  /\ trip = <<[time |-> 1836, early |-> TRUE, vdot |-> 301]>>

\* C22: for every vdot > 0, calculatePaces(vdot) returns whole numbers for
\* threshold and easy with threshold < easy, and easy is the rounding of
\* 1.38 times the unrounded threshold pace (the time over 15 km / 15).
C22_ThresholdBelowEasy ==
  (paceCall = "calculatePaces" /\ paceOut # <<>>)
    => LET p == paceOut[1]
           t == calculateTimeFromVDOT(paceArg * 88 + 5000, 30000)
       IN  /\ p.threshold \in Nat
           /\ p.easy \in Nat
           /\ p.threshold < p.easy
           /\ 1500 * p.easy - 138 * t \in -750..750

\* calculatePaces(56.9): threshold 234 (3509 / 15 = 233.93), easy 323
C22_Witness ==
  /\ paceCall = "calculatePaces" /\ paceArg = 569
  /\ paceOut # <<>>
  /\ paceOut[1].threshold = 234
  /\ paceOut[1].easy = 323

\* C23: in the plan pipeline, a block built from a parseable time10K of t
\* seconds has the threshold pace round((t / 10) * 1.05) and the easy pace
\* round(1.38 * (t / 10) * 1.05), the values of the path through
\* calculateThresholdPaceFrom10K.
C23_Uses10KPath ==
  (op = "createTrainingPlan" /\ result.block # <<>> /\ ~NotSet(input.time10K))
    => LET t == parseTimeString(input.time10K[1]).val
       IN  /\ TheBlock.paces.threshold = (2 * 105 * t + 1000) \div 2000
           /\ TheBlock.paces.easy = (2 * 1449 * t + 10000) \div 20000

\* C24: validateOfficialExample() returns true: for the 10K time 2220 s
\* calculateThresholdPaceFrom10K gives 233.1 s/km, within 10 s of the
\* documented 230, and calculateEasyPaceFromThreshold of it 321.678 s/km,
\* within 15 s of the documented 318.
C24_OfficialExample ==
  (paceCall = "validateOfficialExample" /\ paceOut # <<>>)
    => /\ paceOut[1] = TRUE
       /\ calculateThresholdPaceFrom10K(2220) = 233100
       /\ calculateEasyPaceFromThreshold(233100) = 32167800
       /\ 233100 - 230000 \in -10000..10000
       /\ 32167800 - 31800000 \in -1500000..1500000

C24_Witness ==
  /\ paceCall = "validateOfficialExample"
  /\ paceOut = <<TRUE>>

\* the values of the weeks 1..5 are one value and week 6 has a smaller one
Unloaded(byWeek) ==
  /\ \A w \in 1..5 : byWeek[w] = byWeek[1]
  /\ byWeek[6] < byWeek[1]

SlotInterval(day) ==
  CASE day = 2 -> "short" [] day = 4 -> "medium" [] day = 6 -> "long"
    [] OTHER -> "none"

SessionAsClaimed(b, w, distance, session) ==
  /\ session.type = "threshold"
       => /\ session.intervals # <<>>
          /\ session.paces # <<>>
          /\ LET iv   == session.intervals[1]
                 band == b.paces.intervals[SlotInterval(session.day)]
                 reps == INTERVAL_REPS_BY_DISTANCE[distance][w][iv.type]
             IN  /\ iv.type = SlotInterval(session.day)
                 /\ iv.reps = [min |-> reps, max |-> reps]
                 /\ iv.recovery = 60
                 /\ iv.paceRange = band
                 /\ 2 * session.paces[1].target - (band.min + band.max)
                      \in {0, 1}
  /\ session.type \in {"easy", "long"}
       => /\ session.paces # <<>>
          /\ session.paces[1].target = b.paces.easy
  /\ session.type \in {"rest", "test"}
       => /\ session.duration = <<>>
          /\ session.intervals = <<>>
          /\ session.paces = <<>>

\* C26: in every generated block, a threshold session has an intervals
\* object with the interval type of its slot (Tuesday short, Thursday
\* medium, Saturday long), reps.min = reps.max = the rep count of the table
\* for that week and distance, recovery 60 and the block's band of that type
\* as paceRange, and its target pace is round((band.min + band.max) / 2); an
\* easy or long session has the target pace paces.easy; a rest or test
\* session has no duration, no intervals and no paces.
C26_SessionFields ==
  HasBlock
    => \A w \in 1..Len(TheBlock.weeks) :
         \A i \in 1..Len(TheBlock.weeks[w].sessions) :
           SessionAsClaimed(TheBlock, w, input.targetDistance,
                            TheBlock.weeks[w].sessions[i])

\* a marathon block of seven days from 37:00: Thursday of week 1 has 8
\* medium reps in the band 229..236 with the target 233, Tuesday of week 6
\* has 8 short reps, and Saturday of week 6 is the test day
C26_Witness ==
  /\ op = "createTrainingPlan"
  /\ result.block # <<>>
  /\ input.targetDistance = "42K"
  /\ input.trainingDays = 7
  /\ LET thu == TheBlock.weeks[1].sessions[4]
         tue == TheBlock.weeks[6].sessions[2]
         sat == TheBlock.weeks[6].sessions[6]
     IN  /\ thu.type = "threshold"
         /\ thu.intervals[1].type = "medium"
         /\ thu.intervals[1].reps = [min |-> 8, max |-> 8]
         /\ thu.intervals[1].paceRange = [min |-> 229, max |-> 236]
         /\ thu.paces[1].target = 233
         /\ tue.type = "threshold"
         /\ tue.intervals[1].reps = [min |-> 8, max |-> 8]
         /\ sat.type = "test"
         /\ sat.paces = <<>>
         /\ TheBlock.weeks[1].sessions[1].paces[1].target = 323

\* C27: calculatePacesFrom10K(t) returns the interval bands of the VDOT
\* that the time t implies: intervals =
\* calculateNSIntervalPaces(calculateVDOT(10000, t)), so that two 10K times
\* of different VDOT get different bands.
C27_BandsOfTime ==
  (paceCall = "calculatePacesFrom10K" /\ paceOut # <<>>)
    => paceOut[1].intervals
         = calculateNSIntervalPaces(calculateVDOT(20000, paceArg))

\* C28: after any sequence of form submissions, in which any single read or
\* write of localStorage may fail and is swallowed by the storage functions,
\* whenever a submission has finished and the stored snapshot has a
\* currentBlock, currentBlock.vdot and currentBlock.paces are the
\* snapshot's own vdot and paces.
C28_StoredBlockOfStoredInput ==
  (subPc = "idle" /\ stored # <<>> /\ stored[1].currentBlock # <<>>)
    => /\ stored[1].vdot = <<stored[1].currentBlock[1].vdot>>
       /\ stored[1].paces = <<stored[1].currentBlock[1].paces>>

====
